---- MODULE Spec2Model ----
(***************************************************************************)
(* Model of fiftylangs2anki.py: the lesson loop of generate_deck, the      *)
(* per-language sentence cache files and the audio file store.             *)
(*                                                                         *)
(* The remote site is the environment: every GET either raises             *)
(* ConnectionResetError or returns; a returned lesson page is any page of  *)
(* Pages.  Runs of generate_deck follow one another on the same cache      *)
(* directory, as when the script is started again.                         *)
(***************************************************************************)
EXTENDS Integers, Sequences, FiniteSets, TLC

\* ---------------------------------------------------------------- bounds
MaxLesson == 2      \* lessons 1..MaxLesson (the script accepts 1..100)
MaxRows   == 2      \* rows of a lesson page
MaxFails  == 1      \* ConnectionResetErrors the remote raises, all runs together
MaxRuns   == 2      \* runs of generate_deck on the same cache directory
MaxReruns == 1      \* further runs that repeat the arguments of the run before
MaxDelays == 2      \* values of the random delay that are tried, from the lowest

\* ------------------------------------------------------ program constants
LessonOffset == 161  \* lesson=i + 161 in the lesson link
BackoffSeconds == 60 \* time.sleep(60)
DelayFrom  == 1      \* random.randrange(1, 30)
DelayBelow == 30

Langs    == {"en", "fr"}
SoundIds == {"a1", "a2"}
Lessons  == 1..MaxLesson
NoLang   == "none"

\* ------------------------------------------------------------ remote pages
\* A row of the lesson table (".table tr"):
\*   "ok"        three cells, non-empty source cell, anchor and offset_text
\*   "empty"     the source cell is empty after strip()
\*   "malformed" a cell, the anchor or the offset_text attribute is missing
Row(kind, sid) == [kind |-> kind, sid |-> sid]
OkRows == {Row("ok", s) : s \in SoundIds}
Rows   == OkRows \cup {Row("empty", "-"), Row("malformed", "-")}

RECURSIVE SeqsUpTo(_, _)
SeqsUpTo(S, n) ==
    IF n = 0 THEN {<<>>}
    ELSE LET shorter == SeqsUpTo(S, n - 1)
         IN  shorter \cup {Append(p, r) : p \in {q \in shorter : Len(q) = n - 1}, r \in S}

\* Sound ids are unique within a lesson; rows after a malformed row are never
\* read, so a page ends at its first malformed row.
WellFormedPage(p) ==
    /\ \A a, b \in DOMAIN p :
          (a # b /\ p[a].kind = "ok" /\ p[b].kind = "ok") => p[a].sid # p[b].sid
    /\ \A a \in DOMAIN p : p[a].kind = "malformed" => a = Len(p)
Pages == {p \in SeqsUpTo(Rows, MaxRows) : WellFormedPage(p)}

\* The text of sentence sid in language lang, as the page shows it.
Sentence(lang, sid) == <<lang, sid>>
EmptyText == <<>>

\* Mutant: the text of the row is taken whatever the source cell holds.
SrcCellAny(row, lang) == Sentence(lang, row.sid)

\* cols[0].get_text().strip()
SrcCell(row, lang) == IF row.kind = "empty" THEN EmptyText ELSE Sentence(lang, row.sid)

\* ------------------------------------------------- insertion-ordered dicts
\* A Python dict / JSON object: a sequence of <<key, value>>, keys distinct.
EmptyDict == <<>>
Keys(d) == {d[k][1] : k \in DOMAIN d}
Lookup(d, key) == d[CHOOSE k \in DOMAIN d : d[k][1] = key][2]
DictSet(d, key, val) ==
    IF key \in Keys(d)
    THEN [k \in DOMAIN d |-> IF d[k][1] = key THEN <<key, val>> ELSE d[k]]
    ELSE Append(d, <<key, val>>)
Truthy(d) == d # EmptyDict

VARIABLES
    cache,        \* cache[lang]: the file sentences/<lang>.json
    audio,        \* the files of AUDIO_DIR
    audioGets,    \* GETs issued per audio file
    audioWrites,  \* writes per audio file
    refetched,    \* a GET was issued for an audio file already stored
    runs,         \* runs of generate_deck started so far
    src, dest, start, end,   \* arguments of the current run
    i,            \* the lesson of the loop
    pc,           \* position of the run
    err,          \* the exception that ended the run
    deck,         \* deck.notes
    media_files,
    sentences_1, sentences_2,
    rows, idx,    \* the page being read and the next row / key
    fails,        \* ConnectionResetErrors raised so far
    pageFails,    \* ... by the page GET of the current lesson
    audioFails,   \* ... by an audio GET of the current lesson
    failedAt,     \* the lesson whose fetch raised it, 0 when none is pending
    fetched,      \* lessons whose page was requested in this run
    popStart,     \* lessons with both entries non-empty when the run started
    prev,         \* what the previous run was to this one
    slept,        \* seconds slept by the step just taken, 0 when it did not sleep
    paced         \* no lesson page was requested since the run began or last slept

vars == <<cache, audio, audioGets, audioWrites, refetched, runs, src, dest, start,
          end, i, pc, err, deck, media_files, sentences_1, sentences_2, rows, idx,
          fails, pageFails, audioFails, failedAt, fetched, popStart, prev,
          slept, paced>>

storeVars == <<audio, audioGets, audioWrites, refetched>>
argVars   == <<runs, src, dest, start, end, popStart, prev>>
paceVars  == <<slept, paced>>

\* --------------------------------------------------------- sentence cache
NoFile == [exists |-> FALSE, data |-> <<>>]

\* create_sentences_file: write "{}" when the file is missing
create_sentences_file(c, lang) ==
    IF c[lang].exists THEN c
    ELSE [c EXCEPT ![lang] = [exists |-> TRUE, data |-> <<>>]]

\* get_cached_sentences: the parsed file (the file is created first)
get_cached_sentences(c, lang) == create_sentences_file(c, lang)[lang].data

\* .get(lesson_id, {})
GetOr(data, lesson_id) ==
    IF lesson_id \in DOMAIN data THEN data[lesson_id] ELSE EmptyDict

get_cached_lesson_sentences(c, s, d, lesson_id) ==
    <<GetOr(get_cached_sentences(c, s), lesson_id),
      GetOr(get_cached_sentences(create_sentences_file(c, s), d), lesson_id)>>

\* Mutant: the file is written from the new entry alone.
cache_lesson_sentences_fresh(c, lang, lesson_id, sentences) ==
    [c EXCEPT ![lang] = [exists |-> TRUE,
                         data |-> [l \in {lesson_id} |-> sentences]]]

\* cached[lesson_id] = sentences; json.dump(cached)
cache_lesson_sentences(c, lang, lesson_id, sentences) ==
    LET cached == get_cached_sentences(c, lang)
        merged == [l \in DOMAIN cached \cup {lesson_id} |->
                      IF l = lesson_id THEN sentences ELSE cached[l]]
    IN  [c EXCEPT ![lang] = [exists |-> TRUE, data |-> merged]]

\* Mutant: one non-empty entry is enough.
CacheHitEither(s1, s2) == Truthy(s1) \/ Truthy(s2)

\* Mutant: the cache is never trusted.
CacheHitNever(s1, s2) == FALSE

\* if sentences_1 and sentences_2
CacheHit(s1, s2) == Truthy(s1) /\ Truthy(s2)

\* ------------------------------------------------------------ audio store
\* f"{lang}_{sound_id}.mp3"
Filename(lang, sound_id) == <<lang, sound_id>>
AudioFiles == {Filename(l, s) : l \in Langs, s \in SoundIds}

\* Mutant: the response is not written to the file.
download_audio_unsaved(lang, sound_id, reset) ==
    LET filename == Filename(lang, sound_id)
        gets == [audioGets EXCEPT ![filename] = @ + 1]
    IN  IF filename \in audio
        THEN [raised |-> FALSE, filename |-> filename, audio |-> audio,
              gets |-> audioGets, writes |-> audioWrites, refetched |-> refetched]
        ELSE [raised |-> reset, filename |-> filename, audio |-> audio,
              gets |-> gets, writes |-> audioWrites, refetched |-> refetched]

\* Mutant: no os.path.exists test, the file is always requested.
download_audio_always(lang, sound_id, reset) ==
    LET filename == Filename(lang, sound_id)
        gets == [audioGets EXCEPT ![filename] = @ + 1]
        again == refetched \/ filename \in audio
    IN  IF reset
        THEN [raised |-> TRUE, filename |-> filename, audio |-> audio,
              gets |-> gets, writes |-> audioWrites, refetched |-> again]
        ELSE [raised |-> FALSE, filename |-> filename,
              audio |-> audio \cup {filename}, gets |-> gets,
              writes |-> [audioWrites EXCEPT ![filename] = @ + 1],
              refetched |-> again]

\* download_audio: reset = the GET raises ConnectionResetError
download_audio(lang, sound_id, reset) ==
    LET filename == Filename(lang, sound_id)
        gets == [audioGets EXCEPT ![filename] = @ + 1]
    IN  IF filename \in audio
        THEN [raised |-> FALSE, filename |-> filename, audio |-> audio,
              gets |-> audioGets, writes |-> audioWrites, refetched |-> refetched]
        ELSE IF reset
        THEN [raised |-> TRUE, filename |-> filename, audio |-> audio,
              gets |-> gets, writes |-> audioWrites, refetched |-> refetched]
        ELSE [raised |-> FALSE, filename |-> filename,
              audio |-> audio \cup {filename}, gets |-> gets,
              writes |-> [audioWrites EXCEPT ![filename] = @ + 1],
              refetched |-> refetched]

\* -------------------------------------------------------------------- deck
\* LESSON_LINK.format(src=src, dest=dest, lesson=i + 161)
LessonLink(s, d, lesson) == <<s, lesson + LessonOffset, d>>

\* add_note
add_note(notes, s, d, sound_id, src_sentence, dest_sentence, filename2, link) ==
    Append(notes, [fields |-> <<src_sentence, dest_sentence,
                                <<"sound", filename2>>, link>>,
                   guid   |-> <<s, d, sound_id>>,
                   due    |-> Len(notes)])

\* -------------------------------------------------------------------- Init
Init ==
    /\ cache = [l \in Langs |-> NoFile]
    /\ audio = {}
    /\ audioGets = [f \in AudioFiles |-> 0]
    /\ audioWrites = [f \in AudioFiles |-> 0]
    /\ refetched = FALSE
    /\ runs = 0
    /\ src = NoLang /\ dest = NoLang /\ start = 0 /\ end = 0
    /\ i = 0
    /\ pc = "idle"
    /\ err = "none"
    /\ deck = <<>>
    /\ media_files = <<>>
    /\ sentences_1 = EmptyDict /\ sentences_2 = EmptyDict
    /\ rows = <<>> /\ idx = 0
    /\ fails = 0 /\ pageFails = 0 /\ audioFails = 0 /\ failedAt = 0
    /\ fetched = {}
    /\ popStart = {}
    /\ prev = [status |-> "none", k |-> 0, deck |-> <<>>]
    /\ slept = 0 /\ paced = TRUE


\* ------------------------------------------------------------- generate_deck
Entry(c, lang, lesson) == GetOr(c[lang].data, lesson)
Populated(c, s, d) ==
    {l \in Lessons : Entry(c, s, l) # EmptyDict /\ Entry(c, d, l) # EmptyDict}

\* What the run that just ended is to a run with arguments (s, d, st, en).
PrevOf(s, d, st, en) ==
    IF <<s, d, st, en>> # <<src, dest, start, end>>
    THEN [status |-> "none", k |-> 0, deck |-> <<>>]
    ELSE IF pc = "done" /\ (start..end) \subseteq popStart
    THEN [status |-> "resync", k |-> 0, deck |-> deck]
    ELSE IF pc = "aborted"
    THEN [status |-> "aborted", k |-> i, deck |-> <<>>]
    ELSE [status |-> "none", k |-> 0, deck |-> <<>>]

\* The script is started: the model, an empty deck, media_files = [], i = start.
StartRun(s, d, st, en) ==
    /\ pc \in {"idle", "done", "aborted"}
    /\ runs < MaxRuns
    /\ st <= en
    /\ runs' = runs + 1
    /\ src' = s /\ dest' = d /\ start' = st /\ end' = en
    /\ i' = st
    /\ pc' = "loop"
    /\ err' = "none"
    /\ deck' = <<>>
    /\ media_files' = <<>>
    /\ sentences_1' = EmptyDict /\ sentences_2' = EmptyDict
    /\ rows' = <<>> /\ idx' = 0
    /\ pageFails' = 0 /\ audioFails' = 0 /\ failedAt' = 0
    /\ fetched' = {}
    /\ popStart' = Populated(cache, s, d)
    /\ prev' = PrevOf(s, d, st, en)
    /\ slept' = 0 /\ paced' = TRUE
    /\ UNCHANGED <<cache, storeVars, fails>>

\* while i <= end fails: the package is written.
LoopExit ==
    /\ pc = "loop"
    /\ i > end
    /\ pc' = "done"
    /\ slept' = 0 /\ UNCHANGED paced
    /\ UNCHANGED <<cache, storeVars, argVars, i, err, deck, media_files,
                   sentences_1, sentences_2, rows, idx, fails, pageFails,
                   audioFails, failedAt, fetched>>

\* The files both reads leave behind.
AfterRead(c, s, d) == create_sentences_file(create_sentences_file(c, s), d)

\* get_cached_lesson_sentences, and the branch taken on its result.
CacheCheck ==
    /\ pc = "loop"
    /\ i <= end
    /\ LET got == get_cached_lesson_sentences(cache, src, dest, i)
       IN  IF CacheHit(got[1], got[2])
           THEN /\ sentences_1' = got[1]
                /\ sentences_2' = got[2]
                /\ idx' = 1
                /\ pc' = "hit"
           ELSE /\ sentences_1' = EmptyDict
                /\ sentences_2' = EmptyDict
                /\ idx' = 0
                /\ pc' = "fetch"
    /\ cache' = AfterRead(cache, src, dest)
    /\ slept' = 0 /\ UNCHANGED paced
    /\ UNCHANGED <<storeVars, argVars, i, err, deck, media_files, rows, fails,
                   pageFails, audioFails, failedAt, fetched>>

\* A GET may raise ConnectionResetError while the run's budget lasts.
MayReset(reset) == reset => fails < MaxFails

\* One iteration of the loop over sentences_1.items() (cache hit).
HitRow ==
    /\ pc = "hit"
    /\ idx <= Len(sentences_1)
    /\ LET sound_id == sentences_1[idx][1]
           src_sentence == sentences_1[idx][2]
       IN  IF sound_id \notin Keys(sentences_2)
           THEN \* sentences_2[sound_id] raises KeyError
                /\ pc' = "aborted" /\ err' = "KeyError"
                /\ UNCHANGED <<storeVars, deck, media_files, idx, fails>>
           ELSE \E reset \in BOOLEAN :
                /\ MayReset(reset)
                /\ reset => Filename(dest, sound_id) \notin audio
                /\ LET r == download_audio(dest, sound_id, reset)
                   IN  /\ audio' = r.audio /\ audioGets' = r.gets
                       /\ audioWrites' = r.writes /\ refetched' = r.refetched
                       /\ IF r.raised
                          THEN \* not inside the try: the exception ends the run
                               /\ pc' = "aborted" /\ err' = "ConnectionResetError"
                               /\ fails' = fails + 1
                               /\ UNCHANGED <<deck, media_files, idx>>
                          ELSE /\ media_files' = Append(media_files, r.filename)
                               /\ deck' = add_note(deck, src, dest, sound_id,
                                             src_sentence,
                                             Lookup(sentences_2, sound_id),
                                             r.filename, LessonLink(src, dest, i))
                               /\ idx' = idx + 1
                               /\ UNCHANGED <<pc, err, fails>>
    /\ UNCHANGED <<cache, argVars, i, sentences_1, sentences_2, rows, pageFails,
                   audioFails, failedAt, fetched, paceVars>>

\* Mutant: the index advances by two.
NextLessonSkip(lesson) == lesson + 2

\* i += 1
NextLesson(lesson) == lesson + 1

\* The hit loop is over: i += 1.  The two maps are not read again before the
\* next cache check assigns them, so they are cleared here.
HitEnd ==
    /\ pc = "hit"
    /\ idx > Len(sentences_1)
    /\ i' = NextLesson(i)
    /\ pc' = "loop"
    /\ sentences_1' = EmptyDict /\ sentences_2' = EmptyDict /\ idx' = 0
    /\ UNCHANGED <<cache, storeVars, argVars, err, deck, media_files, rows, fails,
                   pageFails, audioFails, failedAt, fetched, paceVars>>

\* session.get(lesson_link) raises ConnectionResetError.
FetchReset ==
    /\ pc = "fetch"
    /\ fails < MaxFails
    /\ fails' = fails + 1
    /\ pageFails' = pageFails + 1
    /\ failedAt' = i
    /\ fetched' = fetched \cup {i}
    /\ pc' = "backoff"
    /\ paced' = FALSE
    /\ UNCHANGED <<cache, storeVars, argVars, i, err, deck, media_files,
                   sentences_1, sentences_2, rows, idx, audioFails, slept>>

\* session.get(lesson_link) returns a page; soup.select(".table tr").
\* The site serves the same page for a lesson while that lesson is retried.
FetchPage(page) ==
    /\ pc = "fetch"
    /\ audioFails > 0 => page = rows
    /\ fetched' = fetched \cup {i}
    /\ rows' = page
    /\ idx' = 1
    /\ pc' = "rows"
    /\ paced' = FALSE
    /\ UNCHANGED <<cache, storeVars, argVars, i, err, deck, media_files,
                   sentences_1, sentences_2, fails, pageFails, audioFails,
                   failedAt, slept>>

\* Mutant: the exception of a malformed row is handled like a reset.
OnParseErrorRetry == [pc |-> "backoff", err |-> "none"]

\* cols[0], select("a")[1], select_one(...)["offset_text"] on a malformed row
\* raise IndexError / TypeError, which `except ConnectionResetError` lets pass.
OnParseError == [pc |-> "aborted", err |-> "ParseError"]

\* One iteration of the loop over sentence_entries (cache miss).
MissRow ==
    /\ pc = "rows"
    /\ idx <= Len(rows)
    /\ LET entry == rows[idx]
       IN  IF entry.kind = "malformed"
           THEN /\ pc' = OnParseError.pc /\ err' = OnParseError.err
                /\ UNCHANGED <<storeVars, deck, media_files, sentences_1,
                               sentences_2, idx, fails, audioFails, failedAt>>
           ELSE IF SrcCell(entry, src) = EmptyText
           THEN \* continue
                /\ idx' = idx + 1
                /\ UNCHANGED <<storeVars, deck, media_files, sentences_1,
                               sentences_2, pc, err, fails, audioFails,
                               failedAt>>
           ELSE \E reset \in BOOLEAN :
                /\ MayReset(reset)
                /\ reset => Filename(dest, entry.sid) \notin audio
                /\ LET src_sentence == SrcCell(entry, src)
                       dest_sentence == Sentence(dest, entry.sid)
                       sound_id == entry.sid
                       r == download_audio(dest, sound_id, reset)
                   IN  /\ audio' = r.audio /\ audioGets' = r.gets
                       /\ audioWrites' = r.writes /\ refetched' = r.refetched
                       /\ IF r.raised
                          THEN \* except ConnectionResetError
                               /\ pc' = "backoff"
                               /\ fails' = fails + 1
                               /\ audioFails' = audioFails + 1
                               /\ failedAt' = i
                               /\ UNCHANGED <<deck, media_files, sentences_1,
                                              sentences_2, idx, err>>
                          ELSE /\ media_files' = Append(media_files, r.filename)
                               /\ deck' = add_note(deck, src, dest, sound_id,
                                             src_sentence, dest_sentence,
                                             r.filename, LessonLink(src, dest, i))
                               /\ sentences_1' = DictSet(sentences_1, sound_id,
                                                         src_sentence)
                               /\ sentences_2' = DictSet(sentences_2, sound_id,
                                                         dest_sentence)
                               /\ idx' = idx + 1
                               /\ UNCHANGED <<pc, err, fails, audioFails,
                                              failedAt>>
    /\ UNCHANGED <<cache, argVars, i, rows, pageFails, fetched, paceVars>>

\* The two puts of a lesson, as generate_deck calls them.
PersistSrc(c) == cache_lesson_sentences(c, src, i, sentences_1)

\* Mutant: the second put names src again.
PersistDestTypo(c) == cache_lesson_sentences(c, src, i, sentences_2)

PersistDest(c) == cache_lesson_sentences(c, dest, i, sentences_2)

\* cache_lesson_sentences(src, str(i), sentences_1)
PutSrc ==
    /\ pc = "rows"
    /\ idx > Len(rows)
    /\ cache' = PersistSrc(cache)
    /\ pc' = "put2"
    /\ UNCHANGED <<storeVars, argVars, i, err, deck, media_files, sentences_1,
                   sentences_2, rows, idx, fails, pageFails, audioFails, failedAt,
                   fetched, paceVars>>

\* cache_lesson_sentences(dest, str(i), sentences_2)
PutDest ==
    /\ pc = "put2"
    /\ cache' = PersistDest(cache)
    /\ pc' = "delay"
    /\ UNCHANGED <<storeVars, argVars, i, err, deck, media_files, sentences_1,
                   sentences_2, rows, idx, fails, pageFails, audioFails, failedAt,
                   fetched, paceVars>>

\* Mutant: the range starts at 0 and holds one value.
randrange_zero(lo, hi) == {0}

\* random.randrange(lo, hi): an integer of lo..hi-1
randrange(lo, hi) == lo..(hi - 1)

\* time.sleep(random.randrange(1, 30)); i += 1.  The page and the two maps are
\* not read again, so they are cleared here.
Delay ==
    /\ pc = "delay"
    /\ \E t \in randrange(DelayFrom, DelayBelow) :
          /\ t < DelayFrom + MaxDelays
          /\ slept' = t /\ paced' = (t > 0)
    /\ i' = NextLesson(i)
    /\ pc' = "loop"
    /\ sentences_1' = EmptyDict /\ sentences_2' = EmptyDict
    /\ rows' = <<>> /\ idx' = 0
    /\ pageFails' = 0 /\ audioFails' = 0 /\ failedAt' = 0
    /\ UNCHANGED <<cache, storeVars, argVars, err, deck, media_files, fails,
                   fetched>>

\* Mutant: `continue` after the increment, the failed lesson is skipped.
RetryLessonSkip(lesson) == lesson + 1

\* The lesson the loop turns to after `continue`.
RetryLesson(lesson) == lesson

\* time.sleep(60); continue
Backoff ==
    /\ pc = "backoff"
    /\ i' = RetryLesson(i)
    /\ pc' = "loop"
    /\ slept' = BackoffSeconds /\ paced' = (BackoffSeconds > 0)
    /\ UNCHANGED <<cache, storeVars, argVars, err, deck, media_files,
                   sentences_1, sentences_2, rows, idx, fails, pageFails,
                   audioFails, failedAt, fetched>>

\* A run that was served from the cache alone has ended, and the script is
\* started again with the same arguments.
Rerun ==
    /\ runs >= MaxRuns
    /\ runs < MaxRuns + MaxReruns
    /\ pc = "done"
    /\ (start..end) \subseteq popStart
    /\ runs' = runs + 1
    /\ i' = start
    /\ pc' = "loop"
    /\ err' = "none"
    /\ deck' = <<>>
    /\ media_files' = <<>>
    /\ sentences_1' = EmptyDict /\ sentences_2' = EmptyDict
    /\ rows' = <<>> /\ idx' = 0
    /\ pageFails' = 0 /\ audioFails' = 0 /\ failedAt' = 0
    /\ fetched' = {}
    /\ popStart' = Populated(cache, src, dest)
    /\ prev' = PrevOf(src, dest, start, end)
    /\ slept' = 0 /\ paced' = TRUE
    /\ UNCHANGED <<cache, storeVars, fails, src, dest, start, end>>

Next ==
    \/ \E s \in Langs, d \in Langs, st \in Lessons, en \in Lessons :
          StartRun(s, d, st, en)
    \/ LoopExit
    \/ CacheCheck
    \/ HitRow
    \/ HitEnd
    \/ FetchReset
    \/ \E page \in Pages : FetchPage(page)
    \/ MissRow
    \/ PutSrc
    \/ PutDest
    \/ Delay
    \/ Backoff

Spec == Init /\ [][Next]_vars

\* A run over a single language has ended, and the script is started for a
\* pair of two languages over the same range.
PairRun(s, d, st, en) ==
    /\ runs >= MaxRuns
    /\ runs < MaxRuns + MaxReruns
    /\ pc = "done"
    /\ src = dest
    /\ s # d
    /\ st = start /\ en = end
    /\ runs' = runs + 1
    /\ src' = s /\ dest' = d /\ start' = st /\ end' = en
    /\ i' = st
    /\ pc' = "loop"
    /\ err' = "none"
    /\ deck' = <<>>
    /\ media_files' = <<>>
    /\ sentences_1' = EmptyDict /\ sentences_2' = EmptyDict
    /\ rows' = <<>> /\ idx' = 0
    /\ pageFails' = 0 /\ audioFails' = 0 /\ failedAt' = 0
    /\ fetched' = {}
    /\ popStart' = Populated(cache, s, d)
    /\ prev' = PrevOf(s, d, st, en)
    /\ slept' = 0 /\ paced' = TRUE
    /\ UNCHANGED <<cache, storeVars, fails>>

NextPairs ==
    \/ Next
    \/ \E s \in Langs, d \in Langs, st \in Lessons, en \in Lessons :
          PairRun(s, d, st, en)
SpecPairs == Init /\ [][NextPairs]_vars

\* The process is stopped between two statements of the loop: the deck, the
\* maps and the page it held in memory are gone, the files stay.  The run
\* that is started again counts as a run of MaxRuns.
Stop ==
    /\ pc \in {"loop", "hit", "fetch", "rows", "put2", "delay", "backoff"}
    /\ runs < MaxRuns
    /\ pc' = "stopped"
    /\ err' = "none"
    /\ deck' = <<>>
    /\ media_files' = <<>>
    /\ sentences_1' = EmptyDict /\ sentences_2' = EmptyDict
    /\ rows' = <<>> /\ idx' = 0
    /\ pageFails' = 0 /\ audioFails' = 0 /\ failedAt' = 0
    /\ fetched' = {}
    /\ slept' = 0 /\ paced' = TRUE
    /\ UNCHANGED <<cache, storeVars, argVars, i, fails>>

\* The script is started again with the arguments of the run that was stopped.
Restart ==
    /\ pc = "stopped"
    /\ runs < MaxRuns
    /\ runs' = runs + 1
    /\ i' = start
    /\ pc' = "loop"
    /\ popStart' = Populated(cache, src, dest)
    /\ prev' = [status |-> "stopped", k |-> i, deck |-> <<>>]
    /\ UNCHANGED <<cache, storeVars, fails, src, dest, start, end, err, deck,
                   media_files, sentences_1, sentences_2, rows, idx, pageFails,
                   audioFails, failedAt, fetched, paceVars>>

NextStop == Next \/ Stop \/ Restart
SpecStop == Init /\ [][NextStop]_vars

\* The steps of a run that was started.  Every GET returns or raises, and the
\* interpreter keeps executing: a run that can take a step takes one.
RunStep ==
    \/ LoopExit
    \/ CacheCheck
    \/ HitRow
    \/ HitEnd
    \/ FetchReset
    \/ \E page \in Pages : FetchPage(page)
    \/ MissRow
    \/ PutSrc
    \/ PutDest
    \/ Delay
    \/ Backoff
SpecLive == Init /\ [][Next]_vars /\ WF_vars(RunStep)

\* The same runs, followed by repeated runs over a populated cache.
NextRerun == Next \/ Rerun
SpecRerun == Init /\ [][NextRerun]_vars


\* ================================================================== claims
\* The notes of the deck that link to a lesson.
LessonNotes(notes, lesson) ==
    SelectSeq(notes, LAMBDA n : n.fields[4] = LessonLink(src, dest, lesson))
NotesOf(notes, lesson, sid) ==
    {k \in DOMAIN notes : /\ notes[k].fields[4] = LessonLink(src, dest, lesson)
                          /\ notes[k].guid = <<src, dest, sid>>}
NotesOfLesson(lesson) ==
    {k \in DOMAIN deck : deck[k].fields[4] = LessonLink(src, dest, lesson)}
\* The rows of a page that hold a sentence pair.
OkSeq(page) == SelectSeq(page, LAMBDA r : r.kind = "ok")
OkSids(page) == {page[k].sid : k \in {j \in DOMAIN page : page[j].kind = "ok"}}

\* What a run whose first GET of the lesson returns `page` appends to a deck of
\* `base` notes, and what it persists for language lang.
FirstTryNotes(page, lesson, base) ==
    LET ok == OkSeq(page)
    IN  [k \in 1..Len(ok) |->
            [fields |-> <<Sentence(src, ok[k].sid), Sentence(dest, ok[k].sid),
                          <<"sound", Filename(dest, ok[k].sid)>>,
                          LessonLink(src, dest, lesson)>>,
             guid   |-> <<src, dest, ok[k].sid>>,
             due    |-> base + k - 1]]
FirstTryEntry(page, lang) ==
    LET ok == OkSeq(page)
    IN  [k \in 1..Len(ok) |-> <<ok[k].sid, Sentence(lang, ok[k].sid)>>]

\* C1 (retry boundary): when the page GET of lesson i raised
\* ConnectionResetError and a later attempt returned a page, the lesson ends
\* with the notes and the two cache entries of a run whose first GET returned
\* that page, and it is lesson i that was fetched again.
C1_RetryBoundary ==
    (pc = "delay" /\ pageFails >= 1 /\ audioFails = 0) =>
        /\ i = failedAt
        /\ LET mine == LessonNotes(deck, i)
           IN  mine = FirstTryNotes(rows, i, Len(deck) - Len(mine))
        /\ Entry(cache, src, i) = FirstTryEntry(rows, src)
        /\ Entry(cache, dest, i) = FirstTryEntry(rows, dest)
        /\ i \in DOMAIN cache[src].data /\ i \in DOMAIN cache[dest].data

C1_Witness ==
    /\ pc = "delay" /\ pageFails >= 1 /\ audioFails = 0
    /\ Len(LessonNotes(deck, i)) = 2

\* C2 (exactly-once emission): at Done, every lesson of [start, end] has
\* exactly one note per SoundId of its cache entry.
C2_ExactlyOnce ==
    pc = "done" =>
        \A l \in start..end :
            \A sid \in Keys(Entry(cache, src, l)) :
                Cardinality(NotesOf(deck, l, sid)) = 1

\* C3 (idempotent resync): a run that repeats a run over a populated cache
\* emits the same notes, requests no lesson page and issues no GET for a
\* stored audio file.
C3_IdempotentResync ==
    (pc = "done" /\ prev.status = "resync") =>
        /\ deck = prev.deck
        /\ fetched = {}
        /\ ~refetched

C3_Witness ==
    /\ pc = "done" /\ prev.status = "resync"
    /\ Len(deck) >= 2 /\ start < end


\* C4 as claimed (cache completeness, every lesson): at Done, a non-empty
\* source-language entry of any lesson has a non-empty destination-language
\* entry.
C4_CompleteEveryLesson ==
    pc = "done" =>
        \A l \in Lessons :
            Truthy(Entry(cache, src, l)) => Truthy(Entry(cache, dest, l))

\* C4 amended (cache completeness, lessons of the run): at Done, a non-empty
\* source-language entry of a lesson of [start, end] has a non-empty
\* destination-language entry.
C4_CompleteInRange ==
    pc = "done" =>
        \A l \in start..end :
            Truthy(Entry(cache, src, l)) => Truthy(Entry(cache, dest, l))

C4_Witness ==
    /\ pc = "done" /\ runs = 2
    /\ \E l \in start..end : Truthy(Entry(cache, src, l))
    /\ \E l \in Lessons \ (start..end) :
          Truthy(Entry(cache, src, l)) /\ ~Truthy(Entry(cache, dest, l))

Persisted(l) == l \in DOMAIN cache[src].data /\ l \in DOMAIN cache[dest].data

\* C5 as claimed (resume after abort): the lessons before the lesson of the
\* abort stay persisted in both caches, and the run that repeats the aborted
\* run requests the page of none of them.
C5_ResumeFetchesNone ==
    /\ pc = "aborted" => \A l \in start..(i - 1) : Persisted(l)
    /\ prev.status = "aborted" =>
          /\ \A l \in start..(prev.k - 1) : Persisted(l)
          /\ fetched \cap (start..(prev.k - 1)) = {}

\* C5 amended (resume after abort): the lessons before the lesson of the
\* abort stay persisted in both caches, and the run that repeats the aborted
\* run requests the page of none of them whose two entries are non-empty.
C5_ResumeSkipsCached ==
    /\ pc = "aborted" => \A l \in start..(i - 1) : Persisted(l)
    /\ prev.status = "aborted" =>
          /\ \A l \in start..(prev.k - 1) : Persisted(l)
          /\ fetched \cap (start..(prev.k - 1)) \cap popStart = {}

C5_Witness ==
    /\ prev.status = "aborted" /\ prev.k > start
    /\ (start..(prev.k - 1)) \subseteq popStart
    /\ i >= prev.k /\ pc = "fetch"
    /\ fetched = {}

\* C6 (transient failures never abort): no run is ended by a
\* ConnectionResetError.
C6_TransientNeverAborts ==
    pc = "aborted" => err # "ConnectionResetError"

\* C7 (a transient failure leaves the sync state unchanged): the step on
\* which a GET of the miss path raises ConnectionResetError and the backoff
\* step change neither cache file nor i, and the step after the backoff goes
\* to the fetch of the same lesson.
C7_TransientLeavesState ==
    /\ [][(pc # "backoff" /\ pc' = "backoff") =>
             (cache' = cache /\ i' = i /\ failedAt' = i)]_vars
    /\ [][pc = "backoff" => (cache' = cache /\ i' = i /\ pc' = "loop")]_vars
    /\ [][(pc = "loop" /\ failedAt # 0) =>
             (i = failedAt /\ cache' = cache /\ i' = i /\ pc' = "fetch")]_vars

C7_Witness == pc = "fetch" /\ failedAt # 0 /\ failedAt = i /\ fetched = {i}

\* The notes of the deck that play audio file f.
Playing(f) == {k \in DOMAIN deck : deck[k].fields[3] = <<"sound", f>>}

\* C8 as claimed (audio dedup): at most one GET is issued per audio file.
C8_GetAtMostOnce == \A f \in AudioFiles : audioGets[f] <= 1

\* C8 amended (audio dedup): an audio file is written at most once, no GET is
\* issued for a stored file, and every GET beyond the one that stored the file
\* is a GET that raised ConnectionResetError.
C8_StoredAtMostOnce ==
    /\ ~refetched
    /\ \A f \in AudioFiles :
          /\ audioWrites[f] <= 1
          /\ f \in audio <=> audioWrites[f] = 1
          /\ audioGets[f] - audioWrites[f] <= fails

C8_Witness ==
    \E f \in AudioFiles :
        /\ audioGets[f] = 2 /\ audioWrites[f] = 1
        /\ Cardinality(Playing(f)) >= 1

\* The sound id download_audio is called with on the next step, "-" if none.
CurrentSound ==
    IF pc = "hit" /\ idx <= Len(sentences_1)
    THEN IF sentences_1[idx][1] \in Keys(sentences_2)
         THEN sentences_1[idx][1] ELSE "-"
    ELSE IF pc = "rows" /\ idx <= Len(rows) /\ rows[idx].kind = "ok"
    THEN rows[idx].sid
    ELSE "-"

\* C9 (an audio hit is effect-free): a download_audio call for a stored file
\* issues no GET, writes nothing, and the note gets the file's name.
C9_AudioHitEffectFree ==
    [][(CurrentSound # "-" /\ Filename(dest, CurrentSound) \in audio) =>
          /\ audio' = audio
          /\ audioGets' = audioGets
          /\ audioWrites' = audioWrites
          /\ deck' = Append(deck, deck'[Len(deck')])
          /\ deck'[Len(deck')].fields[3] =
                <<"sound", Filename(dest, CurrentSound)>>
          /\ media_files' = Append(media_files, Filename(dest, CurrentSound))]_vars

C9_Witness ==
    \E f \in AudioFiles :
        /\ audioGets[f] = 1 /\ audioWrites[f] = 1 /\ fails = 0
        /\ Cardinality(Playing(f)) >= 2

CacheWritten == \E l \in Langs : cache'[l].data # cache[l].data
NoMalformed(page) == \A k \in DOMAIN page : page[k].kind # "malformed"

\* C11 (ParseError is fatal and not retried): the step that reads a malformed
\* row ends the run with ParseError, with no backoff, no cache write and the
\* lesson index unchanged; an aborted run takes no further step (only a new
\* run follows); and a cache entry is only ever written for the lesson of the
\* loop after every row of its page was read without a malformed row.
C11_ParseErrorFatal ==
    /\ [][(pc = "rows" /\ idx <= Len(rows) /\ rows[idx].kind = "malformed") =>
             /\ pc' = "aborted" /\ err' = "ParseError"
             /\ cache' = cache /\ i' = i /\ fetched' = fetched
             /\ deck' = deck]_vars
    /\ [][pc = "aborted" => (runs' = runs + 1 /\ pc' = "loop" /\ cache' = cache)]_vars
    /\ [][CacheWritten =>
             /\ pc \in {"rows", "put2"} /\ idx > Len(rows) /\ NoMalformed(rows)
             /\ \A l \in Langs : \A m \in Lessons \ {i} :
                    Entry(cache', l, m) = Entry(cache, l, m)]_vars
    /\ [](pc = "aborted" /\ err = "ParseError" =>
             /\ fetched \subseteq start..i
             /\ i \in fetched
             /\ ~(Truthy(Entry(cache, src, i)) /\ Truthy(Entry(cache, dest, i))))

C11_Witness ==
    /\ pc = "aborted" /\ err = "ParseError"
    /\ i < end
    /\ Len(LessonNotes(deck, i)) >= 1
    /\ i \notin DOMAIN cache[src].data /\ i \notin DOMAIN cache[dest].data

\* The maps a put is tried with in every reachable cache.
PutMaps(lang) ==
    {EmptyDict, sentences_1, sentences_2, <<<<"a2", Sentence(lang, "a2")>>>>,
     <<<<"a2", Sentence(lang, "a2")>>, <<"a1", Sentence(lang, "a1")>>>>}
StoredLessons(c, lang) == IF c[lang].exists THEN DOMAIN c[lang].data ELSE {}

C19_RequestRate ==
    /\ [](pc = "fetch" => paced)
    /\ [][pc = "backoff" => (slept' = BackoffSeconds /\ paced')]_vars
    /\ [][pc = "delay" =>
             (slept' >= 1 /\ slept' < DelayBelow /\ slept' >= DelayFrom /\ paced')]_vars
    /\ [][slept' > 0 => pc \in {"delay", "backoff"}]_vars
    /\ [][pc = "hit" => (slept = 0 /\ slept' = 0 /\ paced' = paced)]_vars

C19_Witness ==
    /\ pc = "fetch" /\ paced
    /\ fetched = {i - 1}
    /\ failedAt = 0

RunningPcs == {"loop", "hit", "fetch", "rows", "put2", "delay", "backoff"}

C14_HitKeysMatch ==
    /\ pc = "hit" => Keys(sentences_1) \subseteq Keys(sentences_2)
    /\ pc = "aborted" => err # "KeyError"

\* The lessons of the range that lacked a non-empty entry in one of the two
\* caches when the run started, and the lowest of them.
Lacking == (start..end) \ popStart
Lowest(S) == CHOOSE l \in S : \A m \in S : l <= m

C16_StrictOrder ==
    /\ [](pc \in RunningPcs => (start <= i /\ i <= end + 1))
    /\ [][i' # i =>
             \/ runs' = runs + 1 /\ i' = start'
             \/ /\ runs' = runs /\ i' = i + 1
                /\ \/ pc = "hit" /\ idx > Len(sentences_1)
                   \/ pc = "delay"]_vars
    /\ [](pc \in RunningPcs =>
             /\ fetched \subseteq start..i
             /\ \A l \in start..(i - 1) : l \in fetched \cup popStart)
    /\ [][CacheWritten =>
             /\ pc \in {"rows", "put2"}
             /\ i' = i
             /\ \A l \in Langs : \A m \in Lessons \ {i} :
                    Entry(cache', l, m) = Entry(cache, l, m)]_vars
    /\ [][(pc = "rows" /\ pc' = "put2") =>
             (i' = i /\ cache'[src].data[i] = sentences_1)]_vars
    /\ [][pc = "put2" =>
             (pc' = "delay" /\ i' = i /\ cache'[dest].data[i] = sentences_2)]_vars

C16_Witness ==
    /\ pc = "put2" /\ i = start + 1 /\ i = end
    /\ start \in popStart /\ fetched = {i}
    /\ Len(LessonNotes(deck, start)) >= 1

\* Both entries of the lesson of the loop are non-empty.
BothCached ==
    Entry(cache, src, i) # EmptyDict /\ Entry(cache, dest, i) # EmptyDict

\* C17 (joint hit condition): the cache check sends lesson i to the hit path
\* with the two stored entries when both are non-empty, and to the page fetch
\* otherwise; the hit path requests no lesson page and writes no entry; a
\* lesson is only fetched while not both entries are non-empty; and after a
\* fetch that succeeded both entries of the lesson are the maps parsed from
\* the page, whatever was stored before.
C17_JointHit ==
    /\ [][(pc = "loop" /\ i <= end) =>
             /\ BothCached =>
                   /\ pc' = "hit"
                   /\ sentences_1' = Entry(cache, src, i)
                   /\ sentences_2' = Entry(cache, dest, i)
             /\ ~BothCached => pc' = "fetch"]_vars
    /\ [][pc = "hit" => (fetched' = fetched /\ ~CacheWritten)]_vars
    /\ [](pc = "hit" => (BothCached /\ i \notin fetched))
    /\ [](pc \in {"fetch", "rows", "backoff"} => ~BothCached)
    /\ [](pc = "delay" =>
             /\ i \in fetched
             /\ i \in DOMAIN cache[src].data /\ i \in DOMAIN cache[dest].data
             /\ cache[src].data[i] = FirstTryEntry(rows, src)
             /\ cache[dest].data[i] = FirstTryEntry(rows, dest))

\* The source entry was empty and is replaced; the destination entry, which
\* was non-empty, is about to be replaced by another map.
C17_Witness ==
    /\ pc = "put2"
    /\ Truthy(sentences_1) /\ Entry(cache, src, i) = sentences_1
    /\ Truthy(Entry(cache, dest, i))
    /\ Keys(Entry(cache, dest, i)) # Keys(sentences_2)

\* The audio file a note plays.
NoteAudio(n) == Filename(dest, n.guid[3])

====
